---- MODULE Spec2Model ----
(***************************************************************************)
(* Model of the request-execution engine of terraform-provider-vercel's    *)
(* API client: Client.doRequest (the rate-limit retry loop) and            *)
(* Client._doRequest (one HTTP attempt: dispatch, classification of the    *)
(* response, decoding into the caller's output slot).                      *)
(*                                                                         *)
(* One doRequest call is modelled.  The environment chooses the call       *)
(* descriptor, the outcome of every HTTP round-trip and the moment the     *)
(* caller's context is cancelled.                                          *)
(***************************************************************************)
EXTENDS Integers, Sequences, FiniteSets, TLC

(***************************************************************************)
(* Program constants.                                                      *)
(***************************************************************************)
\* for retries := 0; retries < 3; retries++
MaxRetries == 3
\* apiErr.retryAfter < 5*60
RetryCeiling == 300
\* errorResponse.retryAfter = 1000
DefaultRetryAfter == 1000
\* resp.StatusCode >= 300
ErrorStatusFloor == 300
\* http.StatusTooManyRequests, http.StatusNoContent, http.StatusNotFound
StatusTooManyRequests == 429
StatusNoContent == 204
StatusNotFound == 404

(***************************************************************************)
(* Response bodies the server may answer with.  JSON handling is modelled  *)
(* by what encoding/json does with each of them.                           *)
(***************************************************************************)
EmptyBody == ""
EnvelopeBody == "{\"error\":{\"code\":\"forbidden\",\"message\":\"Not authorized\"}}"
PayloadBody == "{\"id\":\"ecfg_1\"}"
GarbageBody == "<html>Bad Gateway</html>"

Bodies == {EmptyBody, EnvelopeBody, PayloadBody, GarbageBody}

\* json.Unmarshal fails on input that is not valid JSON (the empty input included).
JSONValid(body) == body \in {EnvelopeBody, PayloadBody}

\* json.Unmarshal(body, &struct{ Error *APIError `json:"error"` }{...}): the code
\* and message found under the "error" key; both stay "" when the key is absent.
EnvelopeCode(body) == IF body = EnvelopeBody THEN "forbidden" ELSE ""
EnvelopeMessage(body) == IF body = EnvelopeBody THEN "Not authorized" ELSE ""

\* json.Unmarshal(body, v): what the output slot holds afterwards.  Unknown
\* keys are ignored, so the envelope decodes to the slot's zero value.
Unset == "unset"
JSONDecode(body) == IF body = PayloadBody THEN "id=ecfg_1" ELSE "zero"

(***************************************************************************)
(* Retry-After header values, as sequences of characters, and strconv.Atoi.*)
(***************************************************************************)
Digits == <<"0", "1", "2", "3", "4", "5", "6", "7", "8", "9">>

IsDigit(c) == \E i \in 1..10 : Digits[i] = c

DigitVal(c) == (CHOOSE i \in 1..10 : Digits[i] = c) - 1

RECURSIVE DigitsValue(_)
DigitsValue(s) ==
    IF s = <<>> THEN 0
    ELSE 10 * DigitsValue(SubSeq(s, 1, Len(s) - 1)) + DigitVal(s[Len(s)])

AllDigits(s) == Len(s) > 0 /\ \A i \in 1..Len(s) : IsDigit(s[i])

\* strconv.Atoi: an optional sign followed by at least one digit.
AtoiOK(s) ==
    /\ Len(s) > 0
    /\ IF s[1] \in {"+", "-"} THEN AllDigits(Tail(s)) ELSE AllDigits(s)

Atoi(s) ==
    IF s[1] = "-" THEN 0 - DigitsValue(Tail(s))
    ELSE IF s[1] = "+" THEN DigitsValue(Tail(s))
    ELSE DigitsValue(s)

\* resp.Header.Get("Retry-After") returns "" when the header is absent.
NoHeader == <<>>

RetryAfterHeaders ==
    { NoHeader, <<"s", "o", "o", "n">>, <<"0">>, <<"-", "1">>, <<"2">>,
      <<"2", "9", "9">>, <<"3", "0", "0">>, <<"4", "0", "0">> }

(***************************************************************************)
(* Errors.                                                                 *)
(***************************************************************************)
NoErr ==
    [kind |-> "nil", StatusCode |-> 0, Code |-> "", Message |-> "",
     RawMessage |-> "", retryAfter |-> 0, text |-> "", cause |-> ""]

\* &APIError{...}
APIError(status, code, message, raw, retryAfter) ==
    [kind |-> "api", StatusCode |-> status, Code |-> code, Message |-> message,
     RawMessage |-> raw, retryAfter |-> retryAfter, text |-> "", cause |-> ""]

\* fmt.Errorf("<text>: %w", cause); status and raw are the status code and
\* the body the text quotes (0 and "" when it quotes none).
Wrapped(text, cause, status, raw) ==
    [kind |-> "wrapped", StatusCode |-> status, Code |-> "", Message |-> "",
     RawMessage |-> raw, retryAfter |-> 0, text |-> text, cause |-> cause]

\* req.ctx.Err() of a cancelled context.
CtxErr ==
    [kind |-> "ctx", StatusCode |-> 0, Code |-> "", Message |-> "",
     RawMessage |-> "", retryAfter |-> 0, text |-> "context canceled", cause |-> ""]

\* the error of http.NewRequestWithContext
BuildErr ==
    [kind |-> "build", StatusCode |-> 0, Code |-> "", Message |-> "",
     RawMessage |-> "", retryAfter |-> 0, text |-> "invalid request", cause |-> ""]

\* errors.As(err, &apiErr)
IsAPIError(e) == e.kind = "api"

\* errors.Is(err, ctx.Err())
IsCancellation(e) == e.kind = "ctx" \/ (e.kind = "wrapped" /\ e.cause = "ctx")

\* Mutant of hasStatus: the status is compared without errors.As having
\* established that the error is an APIError.
hasStatusAnyError(e, statusCode) == e # NoErr /\ e.StatusCode = statusCode

\* err != nil && errors.As(err, &apiErr) && apiErr.StatusCode == statusCode
hasStatus(e, statusCode) == e # NoErr /\ IsAPIError(e) /\ e.StatusCode = statusCode

NotFound(e) == hasStatus(e, StatusNotFound)

noContent(e) == hasStatus(e, StatusNoContent)

(***************************************************************************)
(* Outcomes of one HTTP round-trip.                                        *)
(***************************************************************************)
Statuses == {200, StatusNoContent, StatusNotFound, StatusTooManyRequests, 500}

Response(status, body, header) ==
    [outcome |-> "response", status |-> status, body |-> body, retryAfter |-> header,
     cause |-> ""]

\* c.http().Do(req) failed
DoFailure(cause) ==
    [outcome |-> "do_failed", status |-> 0, body |-> EmptyBody, retryAfter |-> NoHeader,
     cause |-> cause]

\* io.ReadAll(resp.Body) failed
ReadFailure(cause) ==
    [outcome |-> "read_failed", status |-> 0, body |-> EmptyBody, retryAfter |-> NoHeader,
     cause |-> cause]

\* What the server (or the network) may answer to one attempt while the
\* caller's context is live.
RoundTrips ==
    { Response(st, b, h) : st \in Statuses, b \in Bodies, h \in RetryAfterHeaders }
        \cup { DoFailure("net"), ReadFailure("net") }

(***************************************************************************)
(* Client._doRequest: one attempt, from the round-trip's outcome to the    *)
(* error returned.                                                         *)
(***************************************************************************)
\* Mutant of RetryAfterOf: the Retry-After header is honoured whatever the status.
RetryAfterOfAnyStatus(rt) ==
    IF /\ rt.retryAfter # NoHeader
       /\ AtoiOK(rt.retryAfter)
       /\ Atoi(rt.retryAfter) > 0
    THEN Atoi(rt.retryAfter)
    ELSE DefaultRetryAfter

\* The retry delay of a classified error with a parseable body.
RetryAfterOf(rt) ==
    IF /\ rt.status = StatusTooManyRequests
       /\ rt.retryAfter # NoHeader
       /\ AtoiOK(rt.retryAfter)
       /\ Atoi(rt.retryAfter) > 0
    THEN Atoi(rt.retryAfter)
    ELSE DefaultRetryAfter

\* Mutant of ClassifyError: RawMessage is not set on the parsed error.
ClassifyErrorNoRaw(rt) ==
    IF rt.body = EmptyBody
    THEN APIError(rt.status, "", "", "", 0)
    ELSE IF ~JSONValid(rt.body)
    THEN Wrapped("error unmarshaling response for status code", "json", rt.status, "")
    ELSE APIError(rt.status, EnvelopeCode(rt.body), EnvelopeMessage(rt.body),
                  "", RetryAfterOf(rt))

\* Mutant of ClassifyError: the empty body is not special-cased and goes
\* through json.Unmarshal, which fails on it.
ClassifyErrorParsesEmpty(rt) ==
    IF ~JSONValid(rt.body)
    THEN Wrapped("error unmarshaling response for status code", "json", rt.status, "")
    ELSE APIError(rt.status, EnvelopeCode(rt.body), EnvelopeMessage(rt.body),
                  rt.body, RetryAfterOf(rt))

\* The branch taken for a response with status >= 300.
ClassifyError(rt) ==
    IF rt.body = EmptyBody
    THEN APIError(rt.status, "", "", "", 0)
    ELSE IF ~JSONValid(rt.body)
    THEN Wrapped("error unmarshaling response for status code", "json", rt.status, "")
    ELSE APIError(rt.status, EnvelopeCode(rt.body), EnvelopeMessage(rt.body),
                  rt.body, RetryAfterOf(rt))

\* The synthetic error of a 204 answered to a call that asked for it.
NoContentError(rt) == APIError(rt.status, "no_content", "No content", "", 0)

\* Mutant of ReachesDecode: the body is decoded before the no-content check.
ReachesDecodeBeforeNoContent(rt, slotNil, errorOnNoContent) ==
    /\ rt.outcome = "response"
    /\ rt.status < ErrorStatusFloor
    /\ ~slotNil

\* Whether the attempt gets as far as json.Unmarshal(responseBody, v).
ReachesDecode(rt, slotNil, errorOnNoContent) ==
    /\ rt.outcome = "response"
    /\ rt.status < ErrorStatusFloor
    /\ ~slotNil
    /\ ~(errorOnNoContent /\ rt.status = StatusNoContent)

\* Mutant of DoRequestErr: the no-content check comes before the nil-slot check.
DoRequestErrNoContentFirst(rt, slotNil, errorOnNoContent) ==
    IF rt.outcome = "do_failed"
    THEN Wrapped("error doing http request", rt.cause, 0, "")
    ELSE IF rt.outcome = "read_failed"
    THEN Wrapped("error reading response body", rt.cause, 0, "")
    ELSE IF rt.status >= ErrorStatusFloor
    THEN ClassifyError(rt)
    ELSE IF errorOnNoContent /\ rt.status = StatusNoContent
    THEN NoContentError(rt)
    ELSE IF slotNil
    THEN NoErr
    ELSE IF ~JSONValid(rt.body)
    THEN Wrapped("error unmarshaling response", "json", 0, rt.body)
    ELSE NoErr

\* The error _doRequest returns.
DoRequestErr(rt, slotNil, errorOnNoContent) ==
    IF rt.outcome = "do_failed"
    THEN Wrapped("error doing http request", rt.cause, 0, "")
    ELSE IF rt.outcome = "read_failed"
    THEN Wrapped("error reading response body", rt.cause, 0, "")
    ELSE IF rt.status >= ErrorStatusFloor
    THEN ClassifyError(rt)
    ELSE IF slotNil
    THEN NoErr
    ELSE IF errorOnNoContent /\ rt.status = StatusNoContent
    THEN NoContentError(rt)
    ELSE IF ~JSONValid(rt.body)
    THEN Wrapped("error unmarshaling response", "json", 0, rt.body)
    ELSE NoErr

\* Mutant of DoRequestSlot: the decoded value never reaches the caller's slot.
DoRequestSlotNeverWritten(rt, slotNil, errorOnNoContent, old) == old

\* Mutant of DoRequestSlot: the body of an error response is decoded into the
\* slot as well.
DoRequestSlotDecodesErrors(rt, slotNil, errorOnNoContent, old) ==
    IF rt.outcome = "response" /\ ~slotNil /\ JSONValid(rt.body)
    THEN JSONDecode(rt.body)
    ELSE old

\* The output slot after _doRequest.
DoRequestSlot(rt, slotNil, errorOnNoContent, old) ==
    IF ReachesDecode(rt, slotNil, errorOnNoContent) /\ JSONValid(rt.body)
    THEN JSONDecode(rt.body)
    ELSE old

(***************************************************************************)
(* The HTTP request of one attempt: clientRequest.toHTTPRequest builds it, *)
(* Client._doRequest authorizes and dispatches it.  A header is a sequence *)
(* of <<name, value>> pairs; a value is the sequence of the pieces         *)
(* fmt.Sprintf joins.                                                      *)
(***************************************************************************)
\* c.token and the provider's version string
Token == "tok"
version == "dev"

UserAgent == <<"terraform-provider-vercel/", version>>
Bearer == <<"Bearer ", Token>>
ApplicationJSON == <<"application/json">>

\* http.Header.Set: the values held under the name are replaced.
HeaderSet(h, name, value) ==
    Append(SelectSeq(h, LAMBDA p : p[1] # name), <<name, value>>)

\* http.Header.Add: the value is appended to those held under the name.
HeaderAdd(h, name, value) == Append(h, <<name, value>>)

\* http.Header.Values
HeaderValues(h, name) == SelectSeq(h, LAMBDA p : p[1] = name)

\* No request has been dispatched yet.
NoRequest == [method |-> "", url |-> "", body |-> "", header |-> <<>>, reader |-> ""]

\* cr.toHTTPRequest(): a new *http.Request whose body reader holds the whole
\* of cr.body.  The field body is what went over the wire, "" until dispatch.
ToHTTPRequest(cr) ==
    [method |-> cr.method,
     url |-> cr.url,
     body |-> "",
     header |-> IF cr.body # ""
                THEN HeaderSet(HeaderSet(<<>>, "User-Agent", UserAgent),
                               "Content-Type", ApplicationJSON)
                ELSE HeaderSet(<<>>, "User-Agent", UserAgent),
     reader |-> cr.body]

\* req.Header.Add("Authorization", ...); c.http().Do(req): the request goes
\* out with what its body reader still holds, and the reader is left drained.
Dispatch(r) ==
    [method |-> r.method,
     url |-> r.url,
     body |-> r.reader,
     header |-> HeaderAdd(r.header, "Authorization", Bearer),
     reader |-> ""]

\* Mutant of RetryRequest: the retry reuses the *http.Request of the previous
\* attempt instead of building a new one.
RetryRequestReused(prev, cr) == prev

\* r, err := req.toHTTPRequest() in the loop body: the request of a retry.
RetryRequest(prev, cr) == ToHTTPRequest(cr)

(***************************************************************************)
(* Client.doRequest: the retry loop.                                       *)
(***************************************************************************)
VARIABLES
    req,         \* the call descriptor (clientRequest)
    slotNil,     \* whether the caller passed a nil output slot v
    v,           \* the content of the output slot
    pc,          \* where the call is
    retries,     \* the loop counter
    err,         \* the function-level err, assigned by the initial attempt
    errInner,    \* the err declared by "r, err := req.toHTTPRequest()" in the loop body
    cancelledAt, \* "no" while req.ctx is live, else where the call was when it was cancelled
    timers,      \* the retry timers started so far: duration in seconds, state
    attempts,    \* the number of HTTP attempts dispatched
    rt,          \* the outcome of the latest finished round-trip
    only429,     \* whether every attempt finished so far ended in a retryable 429
    result,      \* what doRequest returned
    sent,        \* the HTTP request of the latest attempt, as dispatched
    client,      \* c.client: 0 for nil, else the http.Client instance it points to
    created,     \* the number of http.Client instances constructed
    gpc,         \* where each concurrent caller of c.http() is
    got,         \* the instance c.http() returned to each caller (0: none yet)
    team,        \* c.team.ID, the client's default team
    upc,         \* where the client is: "new", "ready" (WithTeam called), "built"
    op,          \* the client operation whose URL was built
    args,        \* the path values the operation was called with
    teamIDArg,   \* the explicit teamID the operation was called with
    scope,       \* what c.teamID(teamID) returned to the operation
    path,        \* what c.makeURL returned to the operation
    url,         \* the URL of the operation's request
    handler,     \* the provider handler that runs
    hpc,         \* where the handler is: "start", "fetch" (in the client), "done"
    importID,    \* req.ID of the import request
    diagnostics, \* resp.Diagnostics: the summaries of the errors recorded
    tfstate,     \* resp.State
    calls,       \* the client calls the handler made, with their arguments
    fetchErr     \* the error the client call returned

callVars == <<req, slotNil, v, pc, retries, err, errInner, cancelledAt, timers,
              attempts, rt, only429, result, sent>>

httpVars == <<client, created, gpc, got>>

urlVars == <<team, upc, op, args, teamIDArg, scope, path, url>>

providerVars == <<handler, hpc, importID, diagnostics, tfstate, calls, fetchErr>>

vars == <<callVars, httpVars, urlVars, providerVars>>

\* What the steps of each part of the program leave alone.
outsideCall == <<httpVars, urlVars, providerVars>>
outsideHttp == <<callVars, urlVars, providerVars>>
outsideURL == <<callVars, httpVars, providerVars>>
outsideProvider == <<callVars, httpVars, urlVars>>

\* The number of goroutines that use one Client concurrently.
NumGoroutines == 3

Goroutines == 1..NumGoroutines

\* client.New: the client field is nil and no caller has entered c.http().
HttpInit ==
    /\ client = 0
    /\ created = 0
    /\ gpc = [g \in Goroutines |-> "call"]
    /\ got = [g \in Goroutines |-> 0]

\* client.New: no default team is set and no operation has been called.
URLInit ==
    /\ team = <<>>
    /\ upc = "new"
    /\ op = "none"
    /\ args = <<>>
    /\ teamIDArg = <<>>
    /\ scope = <<>>
    /\ path = <<>>
    /\ url = <<>>

\* The response of a handler the framework has not invoked yet.
NoState == [kind |-> "unset", value |-> "", source |-> ""]

ProviderIdle ==
    /\ handler = "none"
    /\ hpc = "start"
    /\ importID = <<>>
    /\ diagnostics = <<>>
    /\ tfstate = NoState
    /\ calls = <<>>
    /\ fetchErr = NoErr

\* The call descriptors: a read without a body and a write with one.
RequestURL == "https://api.vercel.com/v1/edge-config"

Requests ==
    { [valid |-> ok, method |-> m[1], url |-> RequestURL, body |-> m[2],
       errorOnNoContent |-> e] :
          ok \in BOOLEAN, m \in {<<"GET", "">>, <<"POST", "{\"slug\":\"x\"}">>},
          e \in BOOLEAN }

\* No round-trip has finished yet.
NoRoundTrip ==
    [outcome |-> "none", status |-> 0, body |-> EmptyBody, retryAfter |-> NoHeader,
     cause |-> ""]

Init ==
    /\ req \in Requests
    /\ slotNil \in BOOLEAN
    /\ v = Unset
    /\ pc = "start"
    /\ retries = 0
    /\ err = NoErr
    /\ errInner = NoErr
    /\ cancelledAt = "no"
    /\ timers = <<>>
    /\ attempts = 0
    /\ rt = NoRoundTrip
    /\ only429 = TRUE
    /\ result = NoErr
    /\ sent = NoRequest
    /\ HttpInit
    /\ URLInit
    /\ ProviderIdle

\* <-req.ctx.Done() is ready
cancelled == cancelledAt # "no"

\* Mutant of LoopCondition: the bound is off by one (retries <= 3).
LoopConditionOffByOne(n) == n <= MaxRetries

\* for retries := 0; retries < 3; retries++
LoopCondition(n) == n < MaxRetries

\* Mutant of RetryCondition: the ceiling is inclusive (retryAfter <= 5*60).
RetryConditionInclusive(e) ==
    /\ IsAPIError(e)
    /\ e.StatusCode = StatusTooManyRequests
    /\ e.retryAfter > 0
    /\ e.retryAfter <= RetryCeiling

\* Mutant of RetryCondition: a delay of 0 is not excluded.
RetryConditionNoFloor(e) ==
    /\ IsAPIError(e)
    /\ e.StatusCode = StatusTooManyRequests
    /\ e.retryAfter < RetryCeiling

\* The condition under which the loop waits and retries.
RetryCondition(e) ==
    /\ IsAPIError(e)
    /\ e.StatusCode = StatusTooManyRequests
    /\ e.retryAfter > 0
    /\ e.retryAfter < RetryCeiling

\* What a round-trip yields: once the context is cancelled, Do fails with the
\* context's error.
Outcomes == IF cancelled THEN {DoFailure("ctx")} ELSE RoundTrips

\* Mutant of NewTimer: the timer is set to the default delay instead of the
\* delay the error carries.
NewTimerDefaultDelay(e) == [duration |-> DefaultRetryAfter, state |-> "running"]

\* time.NewTimer(time.Duration(apiErr.retryAfter) * time.Second)
NewTimer(e) == [duration |-> e.retryAfter, state |-> "running"]

SetTimerState(ts, st) == [ts EXCEPT ![Len(ts)].state = st]

\* doRequest is entered: the request is built and the initial attempt dispatched.
Begin ==
    /\ pc = "start"
    /\ IF req.valid
       THEN /\ pc' = "inflight"
            /\ attempts' = attempts + 1
            /\ sent' = Dispatch(ToHTTPRequest(req))
            /\ UNCHANGED result
       ELSE /\ pc' = "done"
            /\ result' = BuildErr
            /\ UNCHANGED <<attempts, sent>>
    /\ UNCHANGED <<req, slotNil, v, retries, err, errInner, cancelledAt, timers, rt,
                   only429>>
    /\ UNCHANGED outsideCall

\* err := doRequest(): the initial attempt returns.
CompleteInitial ==
    /\ pc = "inflight"
    /\ attempts = 1
    /\ rt' \in Outcomes
    /\ err' = DoRequestErr(rt', slotNil, req.errorOnNoContent)
    /\ v' = DoRequestSlot(rt', slotNil, req.errorOnNoContent, v)
    /\ only429' = (only429 /\ RetryCondition(err'))
    /\ pc' = "loop"
    /\ UNCHANGED <<req, slotNil, retries, errInner, cancelledAt, timers, attempts, result,
                   sent>>
    /\ UNCHANGED outsideCall

\* The loop head: either a timer is started for the retry wait, or the loop is
\* left and the function-level err returned.  The err examined and returned
\* is the function-level one.
LoopHead ==
    /\ pc = "loop"
    /\ IF LoopCondition(retries) /\ RetryCondition(err)
       THEN /\ timers' = Append(timers, NewTimer(err))
            /\ pc' = "wait"
            /\ UNCHANGED result
       ELSE /\ pc' = "done"
            /\ result' = err
            /\ UNCHANGED timers
    /\ UNCHANGED <<req, slotNil, v, retries, err, errInner, cancelledAt, attempts, rt,
                   only429,
                   sent>>
    /\ UNCHANGED outsideCall

\* Mutant of WaitCancelled: the cancellation branch stops the timer but does
\* not return, so the retry is dispatched all the same.
WaitCancelledFallsThrough ==
    /\ pc = "wait"
    /\ cancelled
    /\ timers' = SetTimerState(timers, "stopped")
    /\ pc' = "inflight"
    /\ attempts' = attempts + 1
    /\ sent' = Dispatch(RetryRequest(sent, req))
    /\ UNCHANGED <<req, slotNil, v, retries, err, errInner, cancelledAt, rt, only429,
                   result>>
    /\ UNCHANGED outsideCall

\* Mutant of WaitCancelled: the cancellation branch returns err instead of
\* req.ctx.Err().
WaitCancelledReturnsErr ==
    /\ pc = "wait"
    /\ cancelled
    /\ timers' = SetTimerState(timers, "stopped")
    /\ pc' = "done"
    /\ result' = err
    /\ UNCHANGED <<req, slotNil, v, retries, err, errInner, cancelledAt, attempts, rt,
                   only429,
                   sent>>
    /\ UNCHANGED outsideCall

\* case <-req.ctx.Done(): timer.Stop(); return req.ctx.Err()
WaitCancelled ==
    /\ pc = "wait"
    /\ cancelled
    /\ timers' = SetTimerState(timers, "stopped")
    /\ pc' = "done"
    /\ result' = CtxErr
    /\ UNCHANGED <<req, slotNil, v, retries, err, errInner, cancelledAt, attempts, rt,
                   only429,
                   sent>>
    /\ UNCHANGED outsideCall

\* Mutant of TimerFired: the select has no timer case, so that only the
\* cancellation of the context ends a retry wait.
TimerNeverFires ==
    /\ FALSE
    /\ UNCHANGED vars

\* case <-timer.C: the request is rebuilt and the retry dispatched.  The wait
\* is woken by whichever of the two events happens first, so the timer branch
\* is not taken on a context that is already done.
TimerFired ==
    /\ pc = "wait"
    /\ ~cancelled
    /\ timers' = SetTimerState(timers, "fired")
    /\ pc' = "inflight"
    /\ attempts' = attempts + 1
    /\ sent' = Dispatch(RetryRequest(sent, req))
    /\ UNCHANGED <<req, slotNil, v, retries, err, errInner, cancelledAt, rt, only429,
                   result>>
    /\ UNCHANGED outsideCall

\* if err = c._doRequest(r, v, req.errorOnNoContent); err == nil { return nil }
\* The err assigned here is the one declared inside the loop body.
CompleteRetry ==
    /\ pc = "inflight"
    /\ attempts > 1
    /\ rt' \in Outcomes
    /\ errInner' = DoRequestErr(rt', slotNil, req.errorOnNoContent)
    /\ v' = DoRequestSlot(rt', slotNil, req.errorOnNoContent, v)
    /\ only429' = (only429 /\ RetryCondition(errInner'))
    /\ IF errInner' = NoErr
       THEN /\ pc' = "done"
            /\ result' = NoErr
            /\ UNCHANGED retries
       ELSE /\ pc' = "loop"
            /\ retries' = retries + 1
            /\ UNCHANGED result
    /\ UNCHANGED <<req, slotNil, err, cancelledAt, timers, attempts,
                   sent>>
    /\ UNCHANGED outsideCall

\* The caller cancels the context while the call is running.
Cancel ==
    /\ pc # "done"
    /\ ~cancelled
    /\ cancelledAt' = pc
    /\ UNCHANGED <<req, slotNil, v, pc, retries, err, errInner, timers, attempts,
                   rt, only429, result,
                   sent>>
    /\ UNCHANGED outsideCall

Next ==
    \/ Begin
    \/ CompleteInitial
    \/ LoopHead
    \/ WaitCancelled
    \/ TimerFired
    \/ CompleteRetry
    \/ Cancel

Spec == Init /\ [][Next]_vars

\* The same program under the scheduling it runs with: the goroutine of the
\* call keeps running, every round-trip completes (the transport has a
\* timeout) and a started timer fires.  Nothing obliges the caller to cancel.
Fairness ==
    /\ WF_vars(Begin)
    /\ WF_vars(CompleteInitial)
    /\ WF_vars(LoopHead)
    /\ WF_vars(WaitCancelled)
    /\ WF_vars(TimerFired)
    /\ WF_vars(CompleteRetry)

SpecLive == Init /\ [][Next]_vars /\ Fairness

(***************************************************************************)
(* Client.http: the lazily created shared transport, used by concurrent    *)
(* callers of one Client.  The field c.client is read and written without  *)
(* synchronisation, so the steps of different callers interleave.          *)
(***************************************************************************)
\* if c.client == nil
HttpCheck(g) ==
    /\ gpc[g] = "call"
    /\ gpc' = [gpc EXCEPT ![g] = IF client = 0 THEN "create" ELSE "return"]
    /\ UNCHANGED <<client, created, got>>
    /\ UNCHANGED outsideHttp

\* c.client = &http.Client{Timeout: 5 * time.Minute}
HttpCreate(g) ==
    /\ gpc[g] = "create"
    /\ created' = created + 1
    /\ client' = created + 1
    /\ gpc' = [gpc EXCEPT ![g] = "return"]
    /\ UNCHANGED got
    /\ UNCHANGED outsideHttp

\* return c.client, over which the caller dispatches: c.http().Do(req)
HttpReturn(g) ==
    /\ gpc[g] = "return"
    /\ got' = [got EXCEPT ![g] = client]
    /\ gpc' = [gpc EXCEPT ![g] = "do"]
    /\ UNCHANGED <<client, created>>
    /\ UNCHANGED outsideHttp

\* The doRequest part of the state while only c.http() is looked at.
CallIdle ==
    /\ req = [valid |-> TRUE, method |-> "GET", url |-> RequestURL, body |-> "",
              errorOnNoContent |-> FALSE]
    /\ slotNil = TRUE
    /\ v = Unset
    /\ pc = "start"
    /\ retries = 0
    /\ err = NoErr
    /\ errInner = NoErr
    /\ cancelledAt = "no"
    /\ timers = <<>>
    /\ attempts = 0
    /\ rt = NoRoundTrip
    /\ only429 = TRUE
    /\ result = NoErr
    /\ sent = NoRequest

InitHttp == CallIdle /\ HttpInit /\ URLInit /\ ProviderIdle

NextHttp ==
    \/ \E g \in Goroutines : HttpCheck(g)
    \/ \E g \in Goroutines : HttpCreate(g)
    \/ \E g \in Goroutines : HttpReturn(g)

SpecHttp == InitHttp /\ [][NextHttp]_vars

(***************************************************************************)
(* The URL of a client operation: Client.teamID, Client.makeURL and the    *)
(* operations that use them.  Strings are sequences of characters, so that *)
(* escaping, formatting and splitting are computed as the code computes    *)
(* them.                                                                   *)
(***************************************************************************)
\* baseURL: "https://api.vercel.com"
baseURL ==
    <<"h", "t", "t", "p", "s", ":", "/", "/", "a", "p", "i", ".", "v", "e", "r",
      "c", "e", "l", ".", "c", "o", "m">>

\* "/v1/edge-config/%s"
EdgeConfigPath ==
    <<"/", "v", "1", "/", "e", "d", "g", "e", "-", "c", "o", "n", "f", "i", "g",
      "/", "%", "s">>

\* "/v1/edge-config/%s/schema"
EdgeConfigSchemaPath ==
    <<"/", "v", "1", "/", "e", "d", "g", "e", "-", "c", "o", "n", "f", "i", "g",
      "/", "%", "s", "/", "s", "c", "h", "e", "m", "a">>

\* "/v8/projects/%s/domains/%s"
ProjectDomainPath ==
    <<"/", "v", "8", "/", "p", "r", "o", "j", "e", "c", "t", "s", "/", "%", "s",
      "/", "d", "o", "m", "a", "i", "n", "s", "/", "%", "s">>

\* "%s?teamId=%s"
TeamQueryFormat == <<"%", "s", "?", "t", "e", "a", "m", "I", "d", "=", "%", "s">>

\* "teamId="
TeamQueryKey == <<"t", "e", "a", "m", "I", "d", "=">>

\* The characters url.PathEscape leaves as they are in a path segment:
\* letters, digits, "-", "_", ".", "~" and "$", "&", "+", "=", ":", "@".
Unescaped ==
    {"a", "b", "e", "t", "x", "y", "1", "2", "5", "0", "F", "-", "_", ".", "~",
     "$", "&", "+", "=", ":", "@"}

\* The two hexadecimal digits of the characters it escapes.
PercentCode ==
    [c \in {"/", "?", " ", "%", "#", ";"} |->
        CASE c = "/" -> <<"2", "F">>
          [] c = "?" -> <<"3", "F">>
          [] c = " " -> <<"2", "0">>
          [] c = "%" -> <<"2", "5">>
          [] c = "#" -> <<"2", "3">>
          [] c = ";" -> <<"3", "B">>]

\* Mutant of PathEscape: the value is substituted as it is.
PathEscapeNothing(s) == s

\* url.PathEscape
RECURSIVE PathEscape(_)
PathEscape(s) ==
    IF s = <<>> THEN <<>>
    ELSE (IF s[1] \in Unescaped THEN <<s[1]>> ELSE <<"%">> \o PercentCode[s[1]])
             \o PathEscape(Tail(s))

\* url.PathUnescape succeeds: every "%" is followed by two hexadecimal digits.
RECURSIVE UnescapeOK(_)
UnescapeOK(s) ==
    IF s = <<>> THEN TRUE
    ELSE IF s[1] = "%"
    THEN /\ Len(s) >= 3
         /\ \E c \in DOMAIN PercentCode : PercentCode[c] = <<s[2], s[3]>>
         /\ UnescapeOK(SubSeq(s, 4, Len(s)))
    ELSE UnescapeOK(Tail(s))

\* url.PathUnescape
RECURSIVE PathUnescape(_)
PathUnescape(s) ==
    IF s = <<>> THEN <<>>
    ELSE IF s[1] = "%"
    THEN <<CHOOSE c \in DOMAIN PercentCode : PercentCode[c] = <<s[2], s[3]>> >>
             \o PathUnescape(SubSeq(s, 4, Len(s)))
    ELSE <<s[1]>> \o PathUnescape(Tail(s))

\* fmt.Sprintf with a format of literal text and %s verbs and one operand
\* for each verb.
RECURSIVE Sprintf(_, _)
Sprintf(format, operands) ==
    IF format = <<>> THEN <<>>
    ELSE IF Len(format) >= 2 /\ format[1] = "%" /\ format[2] = "s"
    THEN Head(operands) \o Sprintf(SubSeq(format, 3, Len(format)), Tail(operands))
    ELSE <<format[1]>> \o Sprintf(Tail(format), operands)

\* strings.Split(s, sep) for a separator of one character.
RECURSIVE Split(_, _)
Split(s, sep) ==
    IF \A i \in 1..Len(s) : s[i] # sep THEN <<s>>
    ELSE LET i == CHOOSE k \in 1..Len(s) : s[k] = sep /\ \A j \in 1..(k - 1) : s[j] # sep
         IN  <<SubSeq(s, 1, i - 1)>> \o Split(SubSeq(s, i + 1, Len(s)), sep)

\* Mutant of teamID: the client's default team is ignored.
teamIDWithoutDefault(explicit) == explicit

\* Mutant of teamID: the client's default team comes first.
teamIDDefaultFirst(explicit) == IF team # <<>> THEN team ELSE explicit

\* c.teamID(teamID)
teamID(explicit) == IF explicit # <<>> THEN explicit ELSE team

\* c.makeURL(urlPathSpecifier, urlPathValues...)
makeURL(urlPathSpecifier, urlPathValues) ==
    Sprintf(Sprintf(<<"%", "s", "%", "s">>, <<baseURL, urlPathSpecifier>>),
            [i \in 1..Len(urlPathValues) |-> PathEscape(urlPathValues[i])])

\* if c.teamID(teamID) != "" { url = fmt.Sprintf("%s?teamId=%s", url, c.teamID(teamID)) }
GetEdgeConfigURL(id, t) ==
    IF teamID(t) # <<>>
    THEN Sprintf(TeamQueryFormat, <<makeURL(EdgeConfigPath, <<id>>), teamID(t)>>)
    ELSE makeURL(EdgeConfigPath, <<id>>)

GetEdgeConfigSchemaURL(id, t) ==
    IF teamID(t) # <<>>
    THEN Sprintf(TeamQueryFormat, <<makeURL(EdgeConfigSchemaPath, <<id>>), teamID(t)>>)
    ELSE makeURL(EdgeConfigSchemaPath, <<id>>)

GetProjectDomainURL(projectID, domain, t) ==
    IF teamID(t) # <<>>
    THEN Sprintf(TeamQueryFormat,
                 <<makeURL(ProjectDomainPath, <<projectID, domain>>), teamID(t)>>)
    ELSE makeURL(ProjectDomainPath, <<projectID, domain>>)

\* The team IDs and the path values the operations are called with.
TeamIDs == {<<>>, <<"t", "1">>, <<"t", "2">>}

PathValues ==
    { <<"e", "1">>, <<"a", "/", "b">>, <<"x", "?", "y", "=", "1">>,
      <<"a", " ", "b">>, <<"5", "0", "%">>, <<"/">>,
      <<"a", "%", "2", "F", "b">> }

DomainValues == { <<"a", ".", "x">>, <<"b", " ", "x", "/", "y">>, <<"x", "?", "&">> }

\* c.WithTeam(team)
WithTeam ==
    /\ upc = "new"
    /\ \E t \in TeamIDs : team' = t
    /\ upc' = "ready"
    /\ UNCHANGED <<op, args, teamIDArg, scope, path, url>>
    /\ UNCHANGED outsideURL

\* c.GetEdgeConfig(ctx, id, teamID), up to the descriptor it hands to doRequest
GetEdgeConfig ==
    /\ upc \in {"new", "ready"}
    /\ \E id \in PathValues, t \in TeamIDs :
          /\ op' = "GetEdgeConfig"
          /\ args' = <<id>>
          /\ teamIDArg' = t
          /\ scope' = teamID(t)
          /\ path' = makeURL(EdgeConfigPath, <<id>>)
          /\ url' = GetEdgeConfigURL(id, t)
    /\ upc' = "built"
    /\ UNCHANGED team
    /\ UNCHANGED outsideURL

\* c.GetEdgeConfigSchema(ctx, id, teamID), up to the descriptor
GetEdgeConfigSchema ==
    /\ upc \in {"new", "ready"}
    /\ \E id \in PathValues, t \in TeamIDs :
          /\ op' = "GetEdgeConfigSchema"
          /\ args' = <<id>>
          /\ teamIDArg' = t
          /\ scope' = teamID(t)
          /\ path' = makeURL(EdgeConfigSchemaPath, <<id>>)
          /\ url' = GetEdgeConfigSchemaURL(id, t)
    /\ upc' = "built"
    /\ UNCHANGED team
    /\ UNCHANGED outsideURL

\* c.GetProjectDomain(ctx, projectID, domain, teamID), up to the descriptor
GetProjectDomain ==
    /\ upc \in {"new", "ready"}
    /\ \E projectID \in PathValues, domain \in DomainValues, t \in TeamIDs :
          /\ op' = "GetProjectDomain"
          /\ args' = <<projectID, domain>>
          /\ teamIDArg' = t
          /\ scope' = teamID(t)
          /\ path' = makeURL(ProjectDomainPath, <<projectID, domain>>)
          /\ url' = GetProjectDomainURL(projectID, domain, t)
    /\ upc' = "built"
    /\ UNCHANGED team
    /\ UNCHANGED outsideURL

InitURL == CallIdle /\ HttpInit /\ URLInit /\ ProviderIdle

NextURL ==
    \/ WithTeam
    \/ GetEdgeConfig
    \/ GetEdgeConfigSchema
    \/ GetProjectDomain

SpecURL == InitURL /\ [][NextURL]_vars

(***************************************************************************)
(* The provider: the generic reader of the data sources and the import of  *)
(* a shared environment variable.  A handler is modelled up to its call    *)
(* into the client and from the return of that call; what the client       *)
(* returns is chosen by the environment.                                   *)
(***************************************************************************)
\* errors.New(text)
PlainErr(text) ==
    [kind |-> "plain", StatusCode |-> 0, Code |-> "", Message |-> "",
     RawMessage |-> "", retryAfter |-> 0, text |-> text, cause |-> ""]

\* What a client call may return as its error.
FetchErrors ==
    { NoErr,
      APIError(StatusNotFound, "not_found", "Not Found", EnvelopeBody, DefaultRetryAfter),
      APIError(500, "", "", "", 0),
      Wrapped("error doing http request", "net", 0, ""),
      CtxErr }

\* The readFunc of each data source: from the error e of its client call (and
\* from whether the conversion of the response succeeds) to the result and
\* the error it returns, the diagnostics it records and whether it calls
\* resp.State.RemoveResource.
readFuncAlias(e, convOK) ==
    IF e # NoErr
    THEN [result |-> "zero", err |-> e, diags |-> <<"Error reading alias">>, removed |-> FALSE]
    ELSE [result |-> "value", err |-> NoErr, diags |-> <<>>, removed |-> FALSE]

readFuncAttackChallengeMode(e, convOK) ==
    IF NotFound(e)
    THEN [result |-> "zero", err |-> e, diags |-> <<>>, removed |-> TRUE]
    ELSE IF e # NoErr
    THEN [result |-> "zero", err |-> e, diags |-> <<"Error reading Attack Challenge Mode">>, removed |-> FALSE]
    ELSE [result |-> "value", err |-> NoErr, diags |-> <<>>, removed |-> FALSE]

readFuncDeployment(e, convOK) ==
    IF NotFound(e)
    THEN [result |-> "zero", err |-> e, diags |-> <<>>, removed |-> TRUE]
    ELSE IF e # NoErr
    THEN [result |-> "zero", err |-> e, diags |-> <<"Error reading deployment">>, removed |-> FALSE]
    ELSE [result |-> "value", err |-> NoErr, diags |-> <<>>, removed |-> FALSE]

\* On an error of GetEdgeConfig the function records the diagnostic and
\* returns EdgeConfig{}, nil.
readFuncEdgeConfig(e, convOK) ==
    IF e # NoErr
    THEN [result |-> "zero", err |-> NoErr, diags |-> <<"Error reading EdgeConfig">>,
          removed |-> FALSE]
    ELSE [result |-> "value", err |-> NoErr, diags |-> <<>>, removed |-> FALSE]

\* json.Marshal(out.Definition) may fail after a successful fetch.
readFuncEdgeConfigSchema(e, convOK) ==
    IF e # NoErr
    THEN [result |-> "zero", err |-> e, diags |-> <<"Error reading Edge Config Schema">>,
          removed |-> FALSE]
    ELSE IF ~convOK
    THEN [result |-> "zero", err |-> PlainErr("json: unsupported value"),
          diags |-> <<"Error reading Edge Config Schema">>, removed |-> FALSE]
    ELSE [result |-> "value", err |-> NoErr, diags |-> <<>>, removed |-> FALSE]

readFuncEdgeConfigToken(e, convOK) ==
    IF e # NoErr
    THEN [result |-> "zero", err |-> e, diags |-> <<"Error reading EdgeConfig Token">>, removed |-> FALSE]
    ELSE [result |-> "value", err |-> NoErr, diags |-> <<>>, removed |-> FALSE]

readFuncEndpointVerification(e, convOK) ==
    IF e # NoErr
    THEN [result |-> "zero", err |-> e, diags |-> <<"Failed to get verification code">>, removed |-> FALSE]
    ELSE [result |-> "value", err |-> NoErr, diags |-> <<>>, removed |-> FALSE]

\* responseToLogDrainWithoutSecret may record error diagnostics.
readFuncLogDrain(e, convOK) ==
    IF NotFound(e)
    THEN [result |-> "zero", err |-> e, diags |-> <<>>, removed |-> TRUE]
    ELSE IF e # NoErr
    THEN [result |-> "zero", err |-> e, diags |-> <<"Error reading Log Drain">>,
          removed |-> FALSE]
    ELSE IF ~convOK
    THEN [result |-> "zero", err |-> PlainErr("diagnostics error"),
          diags |-> <<"Value Conversion Error">>, removed |-> FALSE]
    ELSE [result |-> "value", err |-> NoErr, diags |-> <<>>, removed |-> FALSE]

readFuncProjectDeploymentRetention(e, convOK) ==
    IF NotFound(e)
    THEN [result |-> "zero", err |-> e, diags |-> <<>>, removed |-> TRUE]
    ELSE IF e # NoErr
    THEN [result |-> "zero", err |-> e, diags |-> <<"Error reading project deployment retention">>, removed |-> FALSE]
    ELSE [result |-> "value", err |-> NoErr, diags |-> <<>>, removed |-> FALSE]

DataSources ==
    {"alias", "attack_challenge_mode", "deployment", "edge_config",
     "edge_config_schema", "edge_config_token", "endpoint_verification",
     "log_drain", "project_deployment_retention"}

\* r.readFunc(ctx, config, r.client, resp), from the return of its client call
readFunc(ds, e, convOK) ==
    CASE ds = "alias" -> readFuncAlias(e, convOK)
      [] ds = "attack_challenge_mode" -> readFuncAttackChallengeMode(e, convOK)
      [] ds = "deployment" -> readFuncDeployment(e, convOK)
      [] ds = "edge_config" -> readFuncEdgeConfig(e, convOK)
      [] ds = "edge_config_schema" -> readFuncEdgeConfigSchema(e, convOK)
      [] ds = "edge_config_token" -> readFuncEdgeConfigToken(e, convOK)
      [] ds = "endpoint_verification" -> readFuncEndpointVerification(e, convOK)
      [] ds = "log_drain" -> readFuncLogDrain(e, convOK)
      [] ds = "project_deployment_retention" ->
             readFuncProjectDeploymentRetention(e, convOK)

\* The client call of each data source's readFunc.
ClientCall(ds) ==
    CASE ds = "alias" -> "GetAlias"
      [] ds = "attack_challenge_mode" -> "GetAttackChallengeMode"
      [] ds = "deployment" -> "GetDeployment"
      [] ds = "edge_config" -> "GetEdgeConfig"
      [] ds = "edge_config_schema" -> "GetEdgeConfigSchema"
      [] ds = "edge_config_token" -> "GetEdgeConfigToken"
      [] ds = "endpoint_verification" -> "GetEndpointVerificationCode"
      [] ds = "log_drain" -> "GetLogDrain"
      [] ds = "project_deployment_retention" -> "GetDeploymentRetention"

\* resp.State.Set(ctx, result) and resp.State.RemoveResource(ctx)
StateSet(value, by) == [kind |-> "set", value |-> value, source |-> by]
StateRemoved(by) == [kind |-> "removed", value |-> "", source |-> by]

\* reader.Read, up to the client call of the readFunc: the configuration is
\* decoded, and the handler returns when that records an error.
ReadBegin ==
    /\ handler \in DataSources
    /\ hpc = "start"
    /\ \E configOK \in BOOLEAN :
          IF configOK
          THEN /\ calls' = Append(calls, <<ClientCall(handler)>>)
               /\ hpc' = "fetch"
               /\ UNCHANGED diagnostics
          ELSE /\ diagnostics' = Append(diagnostics, "Invalid configuration")
               /\ hpc' = "done"
               /\ UNCHANGED calls
    /\ UNCHANGED <<handler, importID, tfstate, fetchErr>>
    /\ UNCHANGED outsideProvider

\* reader.Read, from the return of the client call: the readFunc finishes,
\* and Read sets the state unless the readFunc returned an error.
ReadReturn ==
    /\ handler \in DataSources
    /\ hpc = "fetch"
    /\ \E e \in FetchErrors, convOK \in BOOLEAN :
          LET out == readFunc(handler, e, convOK)
          IN  /\ fetchErr' = e
              /\ diagnostics' = diagnostics \o out.diags
              /\ tfstate' = IF out.err # NoErr
                            THEN (IF out.removed THEN StateRemoved(handler) ELSE tfstate)
                            ELSE StateSet(out.result, handler)
    /\ hpc' = "done"
    /\ UNCHANGED <<handler, importID, calls>>
    /\ UNCHANGED outsideProvider

\* splitSharedEnvironmentVariableID(id)
splitSharedEnvironmentVariableID(id) ==
    LET attributes == Split(id, "/")
    IN  IF Len(attributes) = 2
        THEN [teamID |-> attributes[1], envID |-> attributes[2], ok |-> TRUE]
        ELSE [teamID |-> <<>>, envID |-> <<>>, ok |-> FALSE]

ImportIDs ==
    { <<"t", "1", "/", "e", "1">>,
      <<"e", "1">>, <<>>, <<"a", "/", "b", "/", "e">>,
      <<"/">>, <<"t", "1", "/">>, <<"t", "2", "/", "e", "2">>,
      <<"t", "1", "/", "/", "e", "1">> }

\* ImportState, up to the client call: the ID is split, a diagnostic is
\* recorded when it is not valid, and GetSharedEnvironmentVariable is called
\* with the parts the split returned.
ImportStateBegin ==
    /\ handler = "ImportState"
    /\ hpc = "start"
    /\ \E id \in ImportIDs :
          LET parts == splitSharedEnvironmentVariableID(id)
          IN  /\ importID' = id
              /\ diagnostics' =
                     IF ~parts.ok
                     THEN Append(diagnostics, "Error importing shared environment variable")
                     ELSE diagnostics
              /\ calls' = Append(calls, <<"GetSharedEnvironmentVariable",
                                          parts.teamID, parts.envID>>)
    /\ hpc' = "fetch"
    /\ UNCHANGED <<handler, tfstate, fetchErr>>
    /\ UNCHANGED outsideProvider

\* ImportState, from the return of the client call.
ImportStateReturn ==
    /\ handler = "ImportState"
    /\ hpc = "fetch"
    /\ \E e \in FetchErrors :
          /\ fetchErr' = e
          /\ IF e # NoErr
             THEN /\ diagnostics' =
                         Append(diagnostics, "Error reading shared environment variable")
                  /\ UNCHANGED tfstate
             ELSE /\ tfstate' = StateSet("value", handler)
                  /\ UNCHANGED diagnostics
    /\ hpc' = "done"
    /\ UNCHANGED <<handler, importID, calls>>
    /\ UNCHANGED outsideProvider

\* The framework invokes one handler with an empty response.
InitProvider ==
    /\ CallIdle
    /\ HttpInit
    /\ URLInit
    /\ handler \in DataSources \cup {"ImportState"}
    /\ hpc = "start"
    /\ importID = <<>>
    /\ diagnostics = <<>>
    /\ tfstate = NoState
    /\ calls = <<>>
    /\ fetchErr = NoErr

NextProvider ==
    \/ ReadBegin
    \/ ReadReturn
    \/ ImportStateBegin
    \/ ImportStateReturn

SpecProvider == InitProvider /\ [][NextProvider]_vars

(***************************************************************************)
(* Derived state used by the properties.                                   *)
(***************************************************************************)
\* An attempt has finished and none is in flight.
Settled == attempts >= 1 /\ pc \in {"loop", "wait", "done"}

\* The error returned by the latest finished attempt (defined when Settled).
LastErr == IF attempts = 1 THEN err ELSE errInner

\* A Classified error that is not a rate limit.
ClassifiedNon429(e) == IsAPIError(e) /\ e.StatusCode # StatusTooManyRequests

\* A failure that is not a Classified error: transport, body read or decode.
NonClassified(e) == e.kind = "wrapped"

\* doRequest has returned to its caller.
Returned == pc = "done"

\* if noContent(err) { return e, &APIError{StatusCode: 404, ...} }; return e, err:
\* the error GetEdgeConfigSchema returns, from the one doRequest returned.
GetEdgeConfigSchemaErr(e) ==
    IF noContent(e)
    THEN APIError(StatusNotFound, "not_found", "Edge Config Schema not found", "", 0)
    ELSE e

\* The call is the one GetEdgeConfigSchema makes: a GET without a body that
\* decodes into &e and asks for a 204 to be an error.
IsGetEdgeConfigSchemaCall ==
    /\ req.valid
    /\ req.method = "GET"
    /\ req.body = ""
    /\ req.errorOnNoContent
    /\ ~slotNil

\* The latest response carries no usable Retry-After value.
NoUsableRetryAfter(r) ==
    \/ r.retryAfter = NoHeader
    \/ ~AtoiOK(r.retryAfter)
    \/ Atoi(r.retryAfter) <= 0

(***************************************************************************)
(* Properties of the retry loop.                                           *)
(***************************************************************************)

\* C1: when the retry bound is exhausted (the call returned after its third
\* retry failed), the error returned is the one of the last attempt.
C1_ReturnsLastError ==
    (pc = "done" /\ retries = MaxRetries) => result = LastErr

\* C2: once an attempt, initial or retry, has ended with a Classified error
\* whose status is not 429, no retry wait is started and the call returns
\* that error.
C2_Non429IsFinal ==
    (Settled /\ ClassifiedNon429(LastErr)) =>
        /\ pc # "wait"
        /\ (pc = "done" => result = LastErr)

\* C3: once an attempt, initial or retry, has ended with a non-Classified
\* failure, no retry wait is started and the call returns that wrapped error.
C3_NonClassifiedIsFinal ==
    (Settled /\ NonClassified(LastErr)) =>
        /\ pc # "wait"
        /\ (pc = "done" => result = LastErr)

\* C4: a call whose context was cancelled during a round-trip or during a
\* retry wait returns an error that is or wraps the context's error.
C4_CancellationPropagated ==
    (pc = "done" /\ cancelledAt \in {"inflight", "wait"}) => IsCancellation(result)

\* C5: a call whose context was cancelled during a retry wait has stopped the
\* timer of that wait instead of letting it fire, has returned the context's
\* error and has dispatched no attempt after that wait.
C5_CancelDuringWait ==
    (cancelledAt = "wait") =>
        /\ pc \in {"wait", "done"}
        /\ attempts = Len(timers)
        /\ (pc = "done" =>
               /\ result = CtxErr
               /\ timers[Len(timers)].state = "stopped")

C5_Witness ==
    /\ pc = "done"
    /\ cancelledAt = "wait"
    /\ Len(timers) = 2
    /\ result = CtxErr

\* C6: a call never dispatches more than 4 attempts (the initial one and 3
\* retries); a call that returned without being cancelled and in which every
\* response was a retryable 429 made exactly 4 attempts and returned an error.
C6_AtMostFourAttempts ==
    /\ attempts <= MaxRetries + 1
    /\ (pc = "done" /\ attempts >= 1 /\ only429 /\ ~cancelled) =>
           (attempts = MaxRetries + 1 /\ result # NoErr)

C6_Witness ==
    /\ pc = "done"
    /\ only429
    /\ ~cancelled
    /\ attempts = MaxRetries + 1
    /\ IsAPIError(result)

\* C7: the timer of a retry wait lasts the retry delay carried by the error of
\* the attempt that immediately precedes the wait.
C7_WaitUsesLatestDelay ==
    (pc = "wait") => timers[Len(timers)].duration = LastErr.retryAfter

\* C8: when the first response is a 429 with Retry-After: 2 and the second is
\* a 200 whose body decodes, the call has returned nil after exactly 2
\* attempts and one completed wait of 2 seconds.
C8_RetryThenSuccess ==
    ( /\ attempts = 2
      /\ Settled
      /\ IsAPIError(err)
      /\ err.StatusCode = StatusTooManyRequests
      /\ err.retryAfter = 2
      /\ rt.outcome = "response"
      /\ rt.status = 200
      /\ JSONValid(rt.body) ) =>
        /\ pc = "done"
        /\ result = NoErr
        /\ timers = << [duration |-> 2, state |-> "fired"] >>

C8_Witness ==
    /\ pc = "done"
    /\ attempts = 2
    /\ err.StatusCode = StatusTooManyRequests
    /\ err.retryAfter = 2
    /\ rt.status = 200
    /\ rt.body = PayloadBody
    /\ ~slotNil
    /\ v = JSONDecode(PayloadBody)
    /\ result = NoErr

\* C9: an initial 429 whose retry delay is at or above the 300-second ceiling
\* starts no wait and no retry and is returned as it is; an initial 429 whose
\* delay is positive and below the ceiling (299 seconds) starts a wait and,
\* unless the call is cancelled, a retry.
C9_CeilingIsExclusive ==
    (Settled /\ IsAPIError(err) /\ err.StatusCode = StatusTooManyRequests) =>
        /\ (err.retryAfter >= RetryCeiling =>
               /\ timers = <<>>
               /\ attempts = 1
               /\ (pc = "done" => result = err))
        /\ ((err.retryAfter > 0 /\ err.retryAfter < RetryCeiling /\ pc = "done") =>
               /\ timers # <<>>
               /\ timers[1].duration = err.retryAfter
               /\ (~cancelled => attempts >= 2))

C9_Witness ==
    /\ pc = "done"
    /\ attempts = 1
    /\ rt.status = StatusTooManyRequests
    /\ rt.retryAfter = <<"3", "0", "0">>
    /\ err.retryAfter = RetryCeiling
    /\ result = err

\* C10: a Classified error built from a response with status >= 300, a
\* non-empty parseable body and no usable Retry-After value has a retry delay
\* of 1, the default of 1 second in the seconds the retry loop multiplies it by.
C10_DefaultDelayIsOneSecond ==
    ( /\ Settled
      /\ rt.outcome = "response"
      /\ rt.status >= ErrorStatusFloor
      /\ JSONValid(rt.body)
      /\ NoUsableRetryAfter(rt) ) =>
        /\ IsAPIError(LastErr)
        /\ LastErr.retryAfter = 1

(***************************************************************************)
(* Properties of one attempt (Client._doRequest).  In a Settled state rt   *)
(* is the response of the latest attempt and LastErr the error it returned.*)
(***************************************************************************)
\* The latest attempt received a response with status >= 300.
ErrorResponse == Settled /\ rt.outcome = "response" /\ rt.status >= ErrorStatusFloor

\* The latest attempt received a response with status < 300.
SuccessResponse == Settled /\ rt.outcome = "response" /\ rt.status < ErrorStatusFloor

\* C11: for a 429 with a non-empty parseable body and a Retry-After header
\* that is an integer n > 0 the Classified error's retry delay is n (2 for
\* "2", 299 for "299"); for every other status with such a body the delay is
\* the same whatever the header says.
C11_RetryAfterOnlyFor429 ==
    (ErrorResponse /\ JSONValid(rt.body)) =>
        /\ IsAPIError(LastErr)
        /\ (rt.status = StatusTooManyRequests /\ ~NoUsableRetryAfter(rt)) =>
               /\ LastErr.retryAfter = Atoi(rt.retryAfter)
               /\ (rt.retryAfter = <<"2">> => LastErr.retryAfter = 2)
               /\ (rt.retryAfter = <<"2", "9", "9">> => LastErr.retryAfter = 299)
               /\ (rt.retryAfter = <<"4", "0", "0">> => LastErr.retryAfter = 400)
        /\ (rt.status # StatusTooManyRequests) =>
               LastErr.retryAfter = DefaultRetryAfter

C11_Witness ==
    /\ ErrorResponse
    /\ rt.status = StatusTooManyRequests
    /\ rt.body = EnvelopeBody
    /\ rt.retryAfter = <<"2", "9", "9">>
    /\ LastErr.retryAfter = 299

\* C12 as stated: for every response with status >= 300 and a non-empty body
\* the error returned carries the status code and the raw body, whether or not
\* the body parses.
C12_AlwaysStatusAndRaw ==
    (ErrorResponse /\ rt.body # EmptyBody) =>
        /\ LastErr.StatusCode = rt.status
        /\ LastErr.RawMessage = rt.body

\* C12 as amended: for a response with status >= 300 and a non-empty body that
\* parses as JSON the Classified error carries the status code and the raw
\* body; when the body does not parse the error is a wrapped, non-Classified
\* one that names the status code and carries no raw body.
C12_StatusAndRawWhenParsed ==
    (ErrorResponse /\ rt.body # EmptyBody) =>
        IF JSONValid(rt.body)
        THEN /\ IsAPIError(LastErr)
             /\ LastErr.StatusCode = rt.status
             /\ LastErr.RawMessage = rt.body
        ELSE /\ NonClassified(LastErr)
             /\ LastErr.StatusCode = rt.status
             /\ LastErr.RawMessage = ""

C12_Witness ==
    /\ ErrorResponse
    /\ rt.status = StatusNotFound
    /\ rt.body = EnvelopeBody
    /\ LastErr.RawMessage = EnvelopeBody
    /\ LastErr.Code = "forbidden"

C14_EmptyBodyError ==
    (ErrorResponse /\ rt.body = EmptyBody) =>
        /\ IsAPIError(LastErr)
        /\ LastErr.StatusCode = rt.status
        /\ LastErr.Code = ""
        /\ LastErr.Message = ""

C14_Witness ==
    /\ ErrorResponse
    /\ rt.body = EmptyBody
    /\ rt.status = 500
    /\ IsAPIError(LastErr)
    /\ LastErr.StatusCode = 500

\* C15: with the no-content-is-error flag set and a non-nil slot, a 204
\* yields a Classified error with status 204 and code "no_content" whatever
\* the body, noContent is true of it, and nothing is decoded into the slot.
C15_NoContentIsError ==
    (SuccessResponse /\ req.errorOnNoContent /\ ~slotNil /\ rt.status = StatusNoContent) =>
        /\ IsAPIError(LastErr)
        /\ LastErr.StatusCode = 204
        /\ LastErr.Code = "no_content"
        /\ noContent(LastErr)
        /\ v = Unset

C15_Witness ==
    /\ SuccessResponse
    /\ req.errorOnNoContent
    /\ ~slotNil
    /\ rt.status = StatusNoContent
    /\ rt.body = PayloadBody
    /\ LastErr.Code = "no_content"

\* C16: with a nil output slot a response with status < 300 is a success and
\* nothing is decoded, also for a 204 with the no-content-is-error flag set.
C16_NilSlotSucceeds ==
    (SuccessResponse /\ slotNil) =>
        /\ LastErr = NoErr
        /\ v = Unset
        /\ pc = "done" => result = NoErr

C16_Witness ==
    /\ SuccessResponse
    /\ slotNil
    /\ req.errorOnNoContent
    /\ rt.status = StatusNoContent
    /\ pc = "done"
    /\ result = NoErr

\* The errors the call holds.
HeldErrors == {err, errInner, result}

\* C17: NotFound is true of a Classified error with status 404 and false of
\* nil, of every error that is not a Classified error (a wrapped failure
\* naming status 404 included) and of a Classified error with another status.
C17_NotFoundExactly ==
    \A e \in HeldErrors :
        /\ (e.kind = "api" /\ e.StatusCode = 404) => NotFound(e)
        /\ (e.kind = "api" /\ e.StatusCode # 404) => ~NotFound(e)
        /\ (e.kind \in {"nil", "wrapped", "ctx", "build"}) => ~NotFound(e)

C17_Witness ==
    /\ pc = "done"
    /\ NotFound(result)
    /\ result.Code = "forbidden"

(***************************************************************************)
(* The retry coordinator's states.                                         *)
(***************************************************************************)
\* The state of the coordinator: the call is attempting until it waits or
\* returns; it returns nil (Succeeded), the context's error from the wait
\* (Cancelled) or any other error (FailedFinal).
CoordState ==
    IF pc = "wait" THEN "WaitingToRetry"
    ELSE IF pc # "done" THEN "Attempting"
    ELSE IF result = NoErr THEN "Succeeded"
    ELSE IF result = CtxErr THEN "Cancelled"
    ELSE "FailedFinal"

Terminal == {"Succeeded", "FailedFinal", "Cancelled"}

SpecifiedTransitions ==
    { <<"Attempting", "Succeeded">>, <<"Attempting", "FailedFinal">>,
      <<"Attempting", "WaitingToRetry">>, <<"WaitingToRetry", "Attempting">>,
      <<"WaitingToRetry", "Cancelled">> }

\* C18: the coordinator starts in Attempting; every step that changes its
\* state is one of the specified transitions; a step taken in a terminal state
\* starts no attempt and no wait.
C18_OnlySpecifiedTransitions ==
    /\ CoordState = "Attempting"
    /\ [][ /\ (CoordState' # CoordState =>
                  <<CoordState, CoordState'>> \in SpecifiedTransitions)
           /\ (CoordState \in Terminal =>
                  attempts' = attempts /\ timers' = timers) ]_vars

C18_Witness ==
    /\ CoordState = "Cancelled"
    /\ attempts = 3
    /\ Len(timers) = 3
    /\ timers[1].state = "fired"

\* C19: every retry timer the call has started lasts more than 0 and less
\* than 300 seconds.
C19_TimerDurationBounded ==
    \A i \in 1..Len(timers) :
        timers[i].duration > 0 /\ timers[i].duration < 300

C19_Witness ==
    /\ Len(timers) = 3
    /\ timers[3].duration = 299
    /\ timers[3].state = "fired"

(***************************************************************************)
(* The shared transport.                                                   *)
(***************************************************************************)
\* C20: under every interleaving of concurrent callers the transport is
\* created at most once (exactly once as soon as a caller has one) and every
\* caller dispatches over the same instance.
C20_TransportCreatedOnce ==
    /\ created <= 1
    /\ \A g \in Goroutines : got[g] # 0 => (created = 1 /\ got[g] = 1)

(***************************************************************************)
(* Termination, the requests sent and the frame of a failed attempt.       *)
(***************************************************************************)

\* C21: every doRequest call eventually returns to its caller, provided every
\* round-trip completes and every started timer fires unless the context is
\* cancelled.
C21_EventuallyReturns == <>Returned

C21_Witness ==
    /\ Returned
    /\ attempts = MaxRetries + 1
    /\ ~cancelled

\* The request an attempt of the call has to send.
ExpectedHeader ==
    IF req.body # ""
    THEN << <<"User-Agent", UserAgent>>, <<"Content-Type", ApplicationJSON>>,
            <<"Authorization", Bearer>> >>
    ELSE << <<"User-Agent", UserAgent>>, <<"Authorization", Bearer>> >>

\* C22: the request of every attempt, initial or retry, carries the call's
\* method, URL and whole body, exactly one Authorization: Bearer <token>
\* header, the product User-Agent and Content-Type: application/json exactly
\* when the body is not empty.
C22_EveryAttemptBuiltAfresh ==
    (attempts >= 1) =>
        /\ sent.method = req.method
        /\ sent.url = req.url
        /\ sent.body = req.body
        /\ HeaderValues(sent.header, "Authorization") = << <<"Authorization", Bearer>> >>
        /\ HeaderValues(sent.header, "User-Agent") = << <<"User-Agent", UserAgent>> >>
        /\ HeaderValues(sent.header, "Content-Type") =
               IF req.body # "" THEN << <<"Content-Type", ApplicationJSON>> >> ELSE <<>>
        /\ sent.header = ExpectedHeader

C22_Witness ==
    /\ attempts = 3
    /\ pc = "inflight"
    /\ req.body # ""
    /\ sent.body = req.body

\* C23: an attempt that ends with a response of status >= 300 returns the
\* error of the classifier and leaves the output slot as it was.
C23_ErrorLeavesSlot ==
    [][ ( /\ pc = "inflight"
          /\ pc' # "inflight"
          /\ rt'.outcome = "response"
          /\ rt'.status >= ErrorStatusFloor ) =>
            /\ v' = v
            /\ (IF attempts = 1 THEN err' ELSE errInner') = ClassifyError(rt') ]_vars

C23_Witness ==
    /\ ErrorResponse
    /\ attempts = 2
    /\ ~slotNil
    /\ JSONValid(rt.body)
    /\ errInner = ClassifyError(rt)
    /\ v = Unset

(***************************************************************************)
(* Properties of the URLs.                                                 *)
(***************************************************************************)
\* The path template of the operation whose URL was built.
PathOf(o) ==
    CASE o = "GetEdgeConfig" -> EdgeConfigPath
      [] o = "GetEdgeConfigSchema" -> EdgeConfigSchemaPath
      [] o = "GetProjectDomain" -> ProjectDomainPath

Contains(s, c) == \E i \in 1..Len(s) : s[i] = c

\* The part of a URL after its first "?", <<>> when it has none.
QueryOf(u) ==
    IF Contains(u, "?")
    THEN LET i == CHOOSE k \in 1..Len(u) : u[k] = "?" /\ \A j \in 1..(k - 1) : u[j] # "?"
         IN  SubSeq(u, i + 1, Len(u))
    ELSE <<>>

\* C24: teamID(explicit) returns explicit when it is not empty and the
\* client's default team ID otherwise, and changes nothing of the client.
C24_ScopeResolved ==
    /\ [](upc = "built" => scope = IF teamIDArg # <<>> THEN teamIDArg ELSE team)
    /\ [][upc' = "built" => team' = team]_vars

C24_Witness ==
    /\ upc = "built"
    /\ teamIDArg = <<>>
    /\ team = <<"t", "2">>
    /\ scope = <<"t", "2">>

\* C25: the URL of the edge-config, edge-config-schema and project-domain
\* operations carries the query teamId=<s> exactly when s, the explicit team
\* if not empty and else the client's default, is not empty; otherwise the URL
\* has no query.
C25_TeamQueryIffScoped ==
    (upc = "built") =>
        LET s == IF teamIDArg # <<>> THEN teamIDArg ELSE team
        IN  IF s # <<>>
            THEN /\ QueryOf(url) = TeamQueryKey \o s
                 /\ url = path \o <<"?">> \o TeamQueryKey \o s
            ELSE /\ ~Contains(url, "?")
                 /\ url = path

C25_Witness ==
    /\ upc = "built"
    /\ op = "GetProjectDomain"
    /\ teamIDArg = <<>>
    /\ team = <<"t", "1">>
    /\ QueryOf(url) = TeamQueryKey \o <<"t", "1">>

\* The number of %s verbs among the first i segments of a template.
RECURSIVE VerbsUpTo(_, _)
VerbsUpTo(segs, i) ==
    IF i = 0 THEN 0
    ELSE VerbsUpTo(segs, i - 1) + (IF segs[i] = <<"%", "s">> THEN 1 ELSE 0)

\* C26: makeURL escapes each path value on its own: the URL it builds has the
\* segments of the template, no "?", and in the place of each verb a segment
\* that unescapes to the value passed for it.
C26_EscapingRoundTrips ==
    (upc = "built") =>
        LET template == Split(baseURL \o PathOf(op), "/")
            segments == Split(path, "/")
        IN  /\ Len(segments) = Len(template)
            /\ ~Contains(path, "?")
            /\ ~Contains(path, " ")
            /\ \A i \in 1..Len(template) :
                  IF template[i] = <<"%", "s">>
                  THEN /\ UnescapeOK(segments[i])
                       /\ PathUnescape(segments[i]) = args[VerbsUpTo(template, i)]
                  ELSE segments[i] = template[i]

C26_Witness ==
    /\ upc = "built"
    /\ op = "GetProjectDomain"
    /\ Contains(args[1], "/")
    /\ Contains(args[2], "?")
    /\ Len(Split(path, "/")) = Len(Split(baseURL \o ProjectDomainPath, "/"))

(***************************************************************************)
(* Accepted requests and the edge config schema.                           *)
(***************************************************************************)

\* C27: once an attempt has received a response with status < 300, the call
\* dispatches no further attempt, whatever the result of that attempt.
C27_AcceptedNeverResent ==
    [][ (rt.outcome = "response" /\ rt.status < ErrorStatusFloor) =>
            attempts' = attempts ]_vars

\* C28: when the server answers GetEdgeConfigSchema's request with a 204,
\* on the initial attempt or on a retry, the operation returns an error for
\* which NotFound is true.
C28_NoContentIsNotFound ==
    ( /\ IsGetEdgeConfigSchemaCall
      /\ Returned
      /\ ~cancelled
      /\ rt.outcome = "response"
      /\ rt.status = StatusNoContent ) =>
        NotFound(GetEdgeConfigSchemaErr(result))

(***************************************************************************)
(* Properties of the provider's handlers.                                  *)
(***************************************************************************)

\* C29: when the client fetch of a data source built on the generic reader
\* returned an error, Read has written no result into the state.
C29_NoStateOnFetchError ==
    (handler \in DataSources /\ hpc = "done" /\ fetchErr # NoErr) =>
        tfstate.kind # "set"

\* C30: when the import ID does not have exactly two parts, ImportState
\* records an error diagnostic, makes no client call and writes no state.
C30_InvalidIDStopsImport ==
    ( /\ handler = "ImportState"
      /\ hpc # "start"
      /\ ~splitSharedEnvironmentVariableID(importID).ok ) =>
        /\ diagnostics # <<>>
        /\ calls = <<>>
        /\ tfstate.kind # "set"

====
